---- MODULE Spec2Model ----
(***************************************************************************)
(* Model of the kaizen CLI: the getAccountInfo command (name resolution,   *)
(* network detection, parallel account queries), the getNftDetails command *)
(* and the launchMeme workflow.  Remote services, the file system and the  *)
(* build tool are the environment: each call's outcome is chosen           *)
(* nondeterministically among the outcomes the call can have.              *)
(***************************************************************************)
EXTENDS Integers, Sequences, FiniteSets, TLC

VARIABLES
    cmd,            \* the command of this process: "account", "nft" or "launch"
    pc,             \* position of the running async function
    exitCode,       \* process exit status
    errorMsg,       \* message of the error that reached the top level
    identifier,     \* getAccountInfo: the <identifier> argument (token sequence)
    isSuiNsName,    \* getAccountInfo: local isSuiNsName
    address,        \* getAccountInfo: local address
    nameOn,         \* world: address registered for the name on each naming service
    hasBalance,     \* world: networks on which the address owns balance entries
    idx,            \* index of the for-loop / prompt in progress
    resolveLog,     \* naming-service lookups sent so far: <<network, outcome>>
    probeLog,       \* getAllBalances probes of detection so far: <<network, outcome>>
    network,        \* network returned by detectNetworkForAddress
    promises,       \* state of the three elements handed to Promise.all
    revRequests,    \* reverse-lookup requests sent: the network of each
    revOutcome,     \* how the reverse-lookup request ended
    reverseLookup,  \* value of the third Promise.all element
    rendered,       \* the account output was printed
    nftObject,      \* getNftDetails: response of client.getObject
    floorStats,     \* getNftDetails: response of the marketplace request
    metadata,       \* getNftDetails: the NftMetadata record
    printed,        \* getNftDetails: the five printed detail lines
    env,            \* process.env: which credentials are set
    answers,        \* launchMeme: answers collected by the prompt
    lastValidation, \* launchMeme: the last validate() call of a question
    log             \* launchMeme: external effects performed, in order

acctVars == <<identifier, isSuiNsName, address, nameOn, hasBalance, resolveLog,
              probeLog, network, promises, revRequests, revOutcome, reverseLookup,
              rendered>>
nftVars == <<nftObject, floorStats, metadata, printed>>
launchVars == <<env, answers, lastValidation, log>>
vars == <<cmd, pc, exitCode, errorMsg, idx, acctVars, nftVars, launchVars>>

----------------------------------------------------------------------------
(* Network registry *)

NETWORKS == <<"mainnet", "testnet", "devnet", "localnet">>

NetworkNames == {NETWORKS[i] : i \in DOMAIN NETWORKS}

networksToCheckWithLocal == NETWORKS

networksToCheck == <<"mainnet", "testnet", "devnet">>

networksWithSuiNSShort == <<"mainnet", "testnet", "devnet">>

networksWithSuiNS == NETWORKS

suiNsEndpoint(n) == n

NotFoundOnAnyNetwork == "Address not found on any supported network"

NameNotFound == "SuiNS name not found on any network"

NoAddress == <<>>

Addresses == {<<"0xA1">>, <<"0xA2">>}

Identifiers == {<<"0xA1">>, <<"alice", ".sui">>}

includesSui(id) == \E i \in DOMAIN id : id[i] = ".sui"

QueryNames == {"getObject", "getAllBalances", "reverseLookup"}

----------------------------------------------------------------------------
(* resolveSuiName: the address, or a throw when the request fails or the   *)
(* response carries no address.                                            *)

resolveSuiName(requestOk, data) ==
    IF requestOk /\ data # NoAddress
    THEN [threw |-> FALSE, address |-> data]
    ELSE [threw |-> TRUE, address |-> NoAddress]

(* detectNetworkForAddress: the test on the probe's result *)
balancesMatchAny(balances) == Len(balances) >= 0

balancesMatch(balances) == Len(balances) > 0

(* checkForSuiNsName: response.data?.name || null, null on any failure *)
Null == <<>>

ReverseNames == {Null, <<"bob", ".sui">>}

checkForSuiNsNameRethrow(requestOk, name) ==
    IF requestOk
    THEN [status |-> "fulfilled", value |-> name]
    ELSE [status |-> "rejected", value |-> Null]

checkForSuiNsName(requestOk, name) ==
    IF requestOk /\ name # Null
    THEN [status |-> "fulfilled", value |-> name]
    ELSE [status |-> "fulfilled", value |-> Null]

(* Promise.all: fulfilled when every element is, rejected when one is *)
allFulfilledAny(p) == \E q \in QueryNames : p[q] = "fulfilled"

allFulfilled(p) == \A q \in QueryNames : p[q] = "fulfilled"

anyRejected(p) == \E q \in QueryNames : p[q] = "rejected"

(* The array handed to Promise.all: both client calls are made, the third *)
(* element is Promise.resolve(identifier) for a name.                      *)
promiseAllElements(isName) ==
    [q \in QueryNames |->
        IF q = "reverseLookup" /\ isName THEN "fulfilled" ELSE "pending"]

----------------------------------------------------------------------------
(* getAccountInfo *)

AccountStart ==
    /\ cmd = "account" /\ pc = "start"
    /\ IF includesSui(identifier)
       THEN /\ isSuiNsName' = TRUE
            /\ pc' = "resolve"
       ELSE /\ isSuiNsName' = FALSE
            /\ pc' = "detect"
    /\ address' = identifier
    /\ idx' = 1
    /\ UNCHANGED <<cmd, exitCode, errorMsg, identifier, nameOn, hasBalance,
                   resolveLog, probeLog, network, promises, revRequests,
                   revOutcome, reverseLookup, rendered, nftVars, launchVars>>

(* one iteration of the loop of resolveSuiNameOnAllNetworks *)
ResolveStep(requestOk) ==
    /\ cmd = "account" /\ pc = "resolve"
    /\ LET n == networksWithSuiNS[idx]
           r == resolveSuiName(requestOk, nameOn[n])
       IN /\ resolveLog' = Append(resolveLog,
                 [network |-> suiNsEndpoint(n), threw |-> r.threw,
                  address |-> r.address])
          /\ IF ~r.threw /\ r.address # NoAddress
             THEN /\ address' = r.address
                  /\ pc' = "detect"
                  /\ idx' = 1
                  /\ UNCHANGED <<exitCode, errorMsg>>
             ELSE IF idx < Len(networksWithSuiNS)
             THEN /\ idx' = idx + 1
                  /\ UNCHANGED <<pc, address, exitCode, errorMsg>>
             ELSE /\ errorMsg' = NameNotFound
                  /\ exitCode' = 1
                  /\ pc' = "done"
                  /\ UNCHANGED <<idx, address>>
    /\ UNCHANGED <<cmd, identifier, isSuiNsName, nameOn, hasBalance, probeLog,
                   network, promises, revRequests, revOutcome, reverseLookup,
                   rendered, nftVars, launchVars>>

(* one iteration of the loop of detectNetworkForAddress *)
DetectStep(requestOk) ==
    /\ cmd = "account" /\ pc = "detect"
    /\ LET n == networksToCheck[idx]
           balances == IF n \in hasBalance THEN <<"0x2::sui::SUI">> ELSE <<>>
       IN /\ probeLog' = Append(probeLog,
                 [network |-> n, threw |-> ~requestOk,
                  entries |-> IF requestOk THEN Len(balances) ELSE 0])
          /\ IF requestOk /\ balancesMatch(balances)
             THEN /\ network' = n
                  /\ pc' = "dispatch"
                  /\ UNCHANGED <<idx, exitCode, errorMsg>>
             ELSE IF idx < Len(networksToCheck)
             THEN /\ idx' = idx + 1
                  /\ UNCHANGED <<pc, network, exitCode, errorMsg>>
             ELSE /\ errorMsg' = NotFoundOnAnyNetwork
                  /\ exitCode' = 1
                  /\ pc' = "done"
                  /\ UNCHANGED <<idx, network>>
    /\ UNCHANGED <<cmd, identifier, isSuiNsName, address, nameOn, hasBalance,
                   resolveLog, promises, revRequests, revOutcome, reverseLookup,
                   rendered, nftVars, launchVars>>

(* the three elements of Promise.all are created in one synchronous step *)
Dispatch ==
    /\ cmd = "account" /\ pc = "dispatch"
    /\ promises' = promiseAllElements(isSuiNsName)
    /\ IF isSuiNsName
       THEN /\ reverseLookup' = identifier
            /\ UNCHANGED revRequests
       ELSE /\ revRequests' = Append(revRequests, suiNsEndpoint(network))
            /\ UNCHANGED reverseLookup
    /\ pc' = "await"
    /\ UNCHANGED <<cmd, exitCode, errorMsg, idx, identifier, isSuiNsName,
                   address, nameOn, hasBalance, resolveLog, probeLog, network,
                   revOutcome, rendered, nftVars, launchVars>>

SettleClientQuery(q, ok) ==
    /\ cmd = "account" /\ pc = "await"
    /\ q \in {"getObject", "getAllBalances"}
    /\ promises[q] = "pending"
    /\ promises' = [promises EXCEPT ![q] = IF ok THEN "fulfilled" ELSE "rejected"]
    /\ UNCHANGED <<cmd, pc, exitCode, errorMsg, idx, identifier, isSuiNsName,
                   address, nameOn, hasBalance, resolveLog, probeLog, network,
                   revRequests, revOutcome, reverseLookup, rendered, nftVars,
                   launchVars>>

SettleReverse(requestOk, name) ==
    /\ cmd = "account" /\ pc = "await"
    /\ promises["reverseLookup"] = "pending"
    /\ LET r == checkForSuiNsName(requestOk, name)
       IN /\ promises' = [promises EXCEPT !["reverseLookup"] = r.status]
          /\ reverseLookup' = r.value
          /\ revOutcome' = IF ~requestOk THEN "error"
                           ELSE IF name = Null THEN "noName" ELSE "name"
    /\ UNCHANGED <<cmd, pc, exitCode, errorMsg, idx, identifier, isSuiNsName,
                   address, nameOn, hasBalance, resolveLog, probeLog, network,
                   revRequests, rendered, nftVars, launchVars>>

(* await Promise.all resumes with the three results: output is printed *)
RenderAccount ==
    /\ cmd = "account" /\ pc = "await"
    /\ allFulfilled(promises)
    /\ ~anyRejected(promises)
    /\ rendered' = TRUE
    /\ pc' = "done"
    /\ UNCHANGED <<cmd, exitCode, errorMsg, idx, identifier, isSuiNsName,
                   address, nameOn, hasBalance, resolveLog, probeLog, network,
                   promises, revRequests, revOutcome, reverseLookup, nftVars,
                   launchVars>>

(* await Promise.all throws as soon as one element is rejected: catch, exit 1 *)
FailAccount ==
    /\ cmd = "account" /\ pc = "await"
    /\ anyRejected(promises)
    /\ errorMsg' = "query failed"
    /\ exitCode' = 1
    /\ pc' = "done"
    /\ UNCHANGED <<cmd, idx, identifier, isSuiNsName, address, nameOn,
                   hasBalance, resolveLog, probeLog, network, promises,
                   revRequests, revOutcome, reverseLookup, rendered, nftVars,
                   launchVars>>

----------------------------------------------------------------------------
(* getNftDetails *)

Undefined == "undefined"

NotAvailable == "Not available"

NftNotFound == "NFT not found or data unavailable"

DetailFields == {"name", "type", "creator", "tag", "allTimeFloorPrice"}

(* responses of client.getObject: no data, or data with or without display *)
NftData ==
    {[hasData |-> FALSE, type |-> Undefined, hasDisplay |-> FALSE,
      name |-> Undefined, creator |-> Undefined, tag |-> Undefined]}
    \cup
    [hasData : {TRUE}, type : {Undefined, "0x2::pepe::Pepe"}, hasDisplay : {FALSE},
     name : {Undefined}, creator : {Undefined}, tag : {Undefined}]
    \cup
    [hasData : {TRUE}, type : {Undefined, "0x2::pepe::Pepe"}, hasDisplay : {TRUE},
     name : {Undefined, "", "Pepe"}, creator : {Undefined, "0xC"},
     tag : {Undefined, "rare"}]

FloorPrices == {Undefined, "", "9.5"}

(* the metadata record before the marketplace request *)
buildMetadata(data) ==
    [type |-> data.type,
     name |-> IF data.hasDisplay THEN data.name ELSE Undefined,
     creator |-> IF data.hasDisplay THEN data.creator ELSE Undefined,
     tag |-> IF data.hasDisplay THEN data.tag ELSE Undefined,
     allTimeFloorPrice |-> Undefined]

(* value || 'Not available' *)
orNotAvailableRaw(v) == v

orNotAvailable(v) == IF v = Undefined \/ v = "" THEN NotAvailable ELSE v

(* await client.getObject, the data check and the metadata assembly *)
NftGetObject(requestOk, data) ==
    /\ cmd = "nft" /\ pc = "start"
    /\ nftObject' = [threw |-> ~requestOk, data |-> data]
    /\ IF ~requestOk
       THEN /\ errorMsg' = "getObject failed"
            /\ exitCode' = 1
            /\ pc' = "done"
            /\ UNCHANGED metadata
       ELSE IF ~data.hasData
       THEN /\ errorMsg' = NftNotFound
            /\ exitCode' = 1
            /\ pc' = "done"
            /\ UNCHANGED metadata
       ELSE /\ metadata' = buildMetadata(data)
            /\ pc' = "floor"
            /\ UNCHANGED <<errorMsg, exitCode>>
    /\ UNCHANGED <<cmd, idx, floorStats, printed, acctVars, launchVars>>

(* await axios.get of the marketplace stats, then the printing *)
NftFloorPrice(requestOk, price) ==
    /\ cmd = "nft" /\ pc = "floor"
    /\ floorStats' = [requestOk |-> requestOk,
                      allTimeFloorPrice |-> IF requestOk THEN price ELSE Undefined]
    /\ metadata' = IF requestOk
                   THEN [metadata EXCEPT !.allTimeFloorPrice = price]
                   ELSE metadata
    /\ printed' = [f \in DetailFields |-> orNotAvailable(metadata'[f])]
    /\ pc' = "done"
    /\ UNCHANGED <<cmd, exitCode, errorMsg, idx, nftObject, acctVars, launchVars>>

----------------------------------------------------------------------------
(* launchMeme *)

MaxSymbolLen == 6

MinSymbolLetters == 3

MaxSymbolLetters == 5

MinTotalSupply == 1

MaxTotalSupply == 10000

MinRoyaltyBps == 0

MaxRoyaltyBps == 100

UpperCase == {"A", "B", "C", "D", "E", "F", "G", "H", "I", "J", "K", "L", "M",
              "N", "O", "P", "Q", "R", "S", "T", "U", "V", "W", "X", "Y", "Z"}

MissingKey == "Missing SUI_PRIVATE_KEY in environment"

questions == <<"name", "symbol", "description", "imagePath", "network",
               "totalSupply", "royaltyBps">>

(* name: z.string().min(1) *)
nameSchema(input) == Len(input) >= 1

(* symbol: /^[A-Z]{3,5}$/ : k letters of [A-Z] from the start, 3 <= k <= 5, *)
(* then the end of the input                                               *)
symbolSchemaUnanchored(input) ==
    \E k \in MinSymbolLetters..MaxSymbolLetters :
        /\ k <= Len(input)
        /\ \A i \in 1..k : input[i] \in UpperCase

symbolSchema(input) ==
    \E k \in MinSymbolLetters..MaxSymbolLetters :
        /\ k <= Len(input)
        /\ \A i \in 1..k : input[i] \in UpperCase
        /\ k = Len(input)

(* network: z.enum(['mainnet', 'testnet', 'devnet']) *)
networkSchema(input) == input \in {"mainnet", "testnet", "devnet"}

(* totalSupply: z.number().min(1).max(10_000) *)
totalSupplySchema(input) == input >= MinTotalSupply /\ input <= MaxTotalSupply

(* royaltyBps: z.number().min(0).max(100) *)
royaltyBpsSchema(input) == input >= MinRoyaltyBps /\ input <= MaxRoyaltyBps

(* the validate callback of a question; imagePath is fs.access *)
validate(field, input, fileOk) ==
    CASE field = "name" -> nameSchema(input)
      [] field = "symbol" -> symbolSchema(input)
      [] field = "imagePath" -> fileOk
      [] field = "totalSupply" -> totalSupplySchema(input)
      [] field = "royaltyBps" -> royaltyBpsSchema(input)
      [] OTHER -> TRUE

(* MemeSchema.parseAsync on the whole record *)
MemeSchema(rec, fileOk) ==
    /\ nameSchema(rec.name)
    /\ symbolSchema(rec.symbol)
    /\ fileOk
    /\ networkSchema(rec.network)
    /\ totalSupplySchema(rec.totalSupply)
    /\ royaltyBpsSchema(rec.royaltyBps)

RECURSIVE SeqsUpTo(_, _)
SeqsUpTo(S, n) ==
    IF n = 0 THEN {<<>>}
    ELSE LET shorter == SeqsUpTo(S, n - 1)
         IN shorter \cup {Append(s, c) : s \in shorter, c \in S}

SymbolInputs ==
    SeqsUpTo({"A", "b"}, MaxSymbolLen)
    \cup {<<"b", "t", "c">>, <<"D", "O", "G", "E">>, <<"X", "Y", "Z">>,
          <<"A", "B", "1">>,
          <<"t", "o", "o", "l", "o", "n", "g", "n", "a", "m", "e">>}

Inputs(field) ==
    CASE field = "name" -> {<<>>, <<"P", "e", "p", "e">>}
      [] field = "symbol" -> SymbolInputs
      [] field = "description" -> {"A meme NFT collection"}
      [] field = "imagePath" -> {"meme.png"}
      [] field = "network" -> {"mainnet", "testnet", "devnet"}
      [] field = "totalSupply" ->
            {MinTotalSupply - 1, MinTotalSupply, MaxTotalSupply, MaxTotalSupply + 1}
      [] field = "royaltyBps" ->
            {MinRoyaltyBps - 1, MinRoyaltyBps, MaxRoyaltyBps, MaxRoyaltyBps + 1}

(* the awaited steps of launchMeme in program order *)
launchSteps == <<"prompt", "parse", "mkdir", "readFile", "upload", "mkdirSources",
                 "writeManifest", "writeSource", "build", "deploy", "tx", "done">>

stepIndex(step) == CHOOSE i \in DOMAIN launchSteps : launchSteps[i] = step

(* a step that throws rejects launchMeme; otherwise the next statement runs *)
stepAfterIgnoringFailure(step, ok) == launchSteps[stepIndex(step) + 1]

stepAfter(step, ok) == IF ok THEN launchSteps[stepIndex(step) + 1] ELSE "done"

fail(step, ok) ==
    /\ exitCode' = IF ok THEN exitCode ELSE 1
    /\ errorMsg' = IF ok \/ errorMsg # "" THEN errorMsg ELSE step

(* inquirer asks question idx: a rejected input is asked for again *)
Prompt(input, fileOk) ==
    /\ cmd = "launch" /\ pc = "prompt"
    /\ LET field == questions[idx]
           accepted == validate(field, input, fileOk)
       IN /\ lastValidation' = [field |-> field, input |-> input,
                                accepted |-> accepted]
          /\ IF accepted
             THEN /\ answers' = [answers EXCEPT ![field] = input]
                  /\ IF idx < Len(questions)
                     THEN idx' = idx + 1 /\ pc' = pc
                     ELSE idx' = idx /\ pc' = stepAfter("prompt", TRUE)
             ELSE UNCHANGED <<answers, idx, pc>>
    /\ UNCHANGED <<cmd, exitCode, errorMsg, env, log, acctVars, nftVars>>

(* MemeSchema.parseAsync(rawAnswers) *)
Parse(fileOk) ==
    /\ cmd = "launch" /\ pc = "parse"
    /\ log' = Append(log, "parse")
    /\ LET ok == MemeSchema(answers, fileOk)
       IN pc' = stepAfter("parse", ok) /\ fail("parse", ok)
    /\ UNCHANGED <<cmd, idx, env, answers, lastValidation, acctVars, nftVars>>

(* a step that performs one external effect and succeeds or throws:        *)
(* fs.mkdir of the project directory; fs.readFile and axios.post of        *)
(* uploadToWalrus; the mkdir and the two writeFile of generateMoveFiles;   *)
(* execSync('sui move build'); the awaited signAndExecuteTransaction       *)
CreateProjectDir(ok) ==
    /\ cmd = "launch" /\ pc = "mkdir"
    /\ log' = Append(log, "mkdir")
    /\ pc' = stepAfter("mkdir", ok) /\ fail("mkdir", ok)
    /\ UNCHANGED <<cmd, idx, env, answers, lastValidation, acctVars, nftVars>>

UploadReadFile(ok) ==
    /\ cmd = "launch" /\ pc = "readFile"
    /\ log' = Append(log, "readFile")
    /\ pc' = stepAfter("readFile", ok) /\ fail("readFile", ok)
    /\ UNCHANGED <<cmd, idx, env, answers, lastValidation, acctVars, nftVars>>

(* the POST is sent with `Bearer ${process.env.WALRUS_API_KEY}` whatever   *)
(* the variable holds                                                      *)
UploadPost(ok) ==
    /\ cmd = "launch" /\ pc = "upload"
    /\ log' = Append(log, "upload")
    /\ pc' = stepAfter("upload", ok) /\ fail("upload", ok)
    /\ UNCHANGED <<cmd, idx, env, answers, lastValidation, acctVars, nftVars>>

GenerateMoveFiles(ok) ==
    /\ cmd = "launch" /\ pc \in {"mkdirSources", "writeManifest", "writeSource"}
    /\ log' = Append(log, pc)
    /\ pc' = stepAfter(pc, ok) /\ fail(pc, ok)
    /\ UNCHANGED <<cmd, idx, env, answers, lastValidation, acctVars, nftVars>>

Build(ok) ==
    /\ cmd = "launch" /\ pc = "build"
    /\ log' = Append(log, "build")
    /\ pc' = stepAfter("build", ok) /\ fail("build", ok)
    /\ UNCHANGED <<cmd, idx, env, answers, lastValidation, acctVars, nftVars>>

(* getKeypair: throws when SUI_PRIVATE_KEY is not set *)
getKeypair(e) == e.SUI_PRIVATE_KEY

(* deployCollection up to its await: getKeypair, the bytecode dump and the *)
(* call of signAndExecuteTransaction                                       *)
DeployPrepare(dumpOk) ==
    /\ cmd = "launch" /\ pc = "deploy"
    /\ IF ~getKeypair(env)
       THEN /\ errorMsg' = MissingKey
            /\ exitCode' = 1
            /\ pc' = "done"
            /\ UNCHANGED log
       ELSE /\ log' = IF dumpOk THEN log \o <<"buildDump", "tx">>
                      ELSE Append(log, "buildDump")
            /\ pc' = stepAfter("deploy", dumpOk)
            /\ fail("buildDump", dumpOk)
    /\ UNCHANGED <<cmd, idx, env, answers, lastValidation, acctVars, nftVars>>

(* the transaction settles; the package id and the link are printed *)
DeployExecute(ok) ==
    /\ cmd = "launch" /\ pc = "tx"
    /\ pc' = stepAfter("tx", ok) /\ fail("tx", ok)
    /\ UNCHANGED <<cmd, idx, env, answers, lastValidation, log, acctVars, nftVars>>

----------------------------------------------------------------------------

NoPromises == [q \in QueryNames |-> "unissued"]

NoMetadata == [f \in DetailFields |-> Undefined]

NoData == [hasData |-> FALSE, type |-> Undefined, hasDisplay |-> FALSE,
           name |-> Undefined, creator |-> Undefined, tag |-> Undefined]

NoAnswers == [name |-> <<>>, symbol |-> <<>>, description |-> "", imagePath |-> "",
              network |-> "testnet", totalSupply |-> 0, royaltyBps |-> 5]

Init ==
    /\ cmd \in {"account", "nft", "launch"}
    /\ pc = IF cmd = "launch" THEN "prompt" ELSE "start"
    /\ exitCode = 0
    /\ errorMsg = ""
    /\ idx = 1
    /\ identifier \in IF cmd = "account" THEN Identifiers ELSE {<<>>}
    /\ isSuiNsName = FALSE
    /\ address = <<>>
    /\ nameOn \in IF cmd = "account" /\ includesSui(identifier)
                  THEN [NetworkNames -> Addresses \cup {NoAddress}]
                  ELSE {[n \in NetworkNames |-> NoAddress]}
    /\ hasBalance \in IF cmd = "account" THEN SUBSET NetworkNames ELSE {{}}
    /\ resolveLog = <<>>
    /\ probeLog = <<>>
    /\ network = "none"
    /\ promises = NoPromises
    /\ revRequests = <<>>
    /\ revOutcome = "none"
    /\ reverseLookup = Null
    /\ rendered = FALSE
    /\ nftObject = [threw |-> FALSE, data |-> NoData]
    /\ floorStats = [requestOk |-> FALSE, allTimeFloorPrice |-> Undefined]
    /\ metadata = NoMetadata
    /\ printed = [f \in DetailFields |-> ""]
    /\ env \in IF cmd = "launch"
               THEN [SUI_PRIVATE_KEY : BOOLEAN, WALRUS_API_KEY : BOOLEAN]
               ELSE {[SUI_PRIVATE_KEY |-> FALSE, WALRUS_API_KEY |-> FALSE]}
    /\ answers = NoAnswers
    /\ lastValidation = [field |-> "none", input |-> <<>>, accepted |-> FALSE]
    /\ log = <<>>

Next ==
    \/ AccountStart
    \/ \E requestOk \in BOOLEAN : ResolveStep(requestOk)
    \/ \E requestOk \in BOOLEAN : DetectStep(requestOk)
    \/ Dispatch
    \/ \E q \in QueryNames, ok \in BOOLEAN : SettleClientQuery(q, ok)
    \/ \E requestOk \in BOOLEAN, name \in ReverseNames : SettleReverse(requestOk, name)
    \/ RenderAccount
    \/ FailAccount
    \/ \E requestOk \in BOOLEAN, data \in NftData : NftGetObject(requestOk, data)
    \/ \E requestOk \in BOOLEAN, price \in FloorPrices : NftFloorPrice(requestOk, price)
    \/ \E input \in Inputs(questions[idx]), fileOk \in BOOLEAN : Prompt(input, fileOk)
    \/ \E fileOk \in BOOLEAN : Parse(fileOk)
    \/ \E ok \in BOOLEAN : CreateProjectDir(ok)
    \/ \E ok \in BOOLEAN : UploadReadFile(ok)
    \/ \E ok \in BOOLEAN : UploadPost(ok)
    \/ \E ok \in BOOLEAN : GenerateMoveFiles(ok)
    \/ \E ok \in BOOLEAN : Build(ok)
    \/ \E dumpOk \in BOOLEAN : DeployPrepare(dumpOk)
    \/ \E ok \in BOOLEAN : DeployExecute(ok)

Spec == Init /\ [][Next]_vars

----------------------------------------------------------------------------
(* Properties *)

Range(f) == {f[i] : i \in DOMAIN f}

IsPrefix(s, t) == Len(s) <= Len(t) /\ \A i \in DOMAIN s : s[i] = t[i]

probeMatched(p) == ~p.threw /\ p.entries >= 1

DetectionOrder == <<"mainnet", "testnet", "devnet">>

TableOrder == <<"mainnet", "testnet", "devnet", "localnet">>

(* C1: detection probes mainnet, testnet, devnet in this order; the network *)
(* it returns is the first whose getAllBalances call succeeded with at      *)
(* least one entry; a probe that threw or came back empty is followed by    *)
(* the next candidate, and no probe follows the matching one.               *)
C1_DetectFirstMatch ==
    /\ Len(probeLog) <= Len(DetectionOrder)
    /\ \A i \in DOMAIN probeLog : probeLog[i].network = DetectionOrder[i]
    /\ \A i \in DOMAIN probeLog : i < Len(probeLog) => ~probeMatched(probeLog[i])
    /\ network # "none" =>
          /\ probeLog # <<>>
          /\ probeLog[Len(probeLog)].network = network
          /\ probeMatched(probeLog[Len(probeLog)])
          /\ network \in hasBalance
    /\ (probeLog # <<>> /\ probeMatched(probeLog[Len(probeLog)])) =>
          /\ network = probeLog[Len(probeLog)].network
          /\ pc # "detect"
    /\ (pc = "detect" /\ probeLog # <<>>) => idx = Len(probeLog) + 1

C1_Witness ==
    /\ network = "devnet"
    /\ Len(probeLog) = 3
    /\ probeLog[1].threw
    /\ ~probeLog[2].threw /\ probeLog[2].entries = 0

(* C2: for an address with no balance entry on mainnet, testnet and devnet  *)
(* detection fails with 'Address not found on any supported network' after  *)
(* exactly one probe of each of the three; localnet is never probed and no  *)
(* network is probed twice.                                                 *)
C2_NotFoundAfterAllProbed ==
    /\ \A i \in DOMAIN probeLog : probeLog[i].network # "localnet"
    /\ \A i, j \in DOMAIN probeLog :
          probeLog[i].network = probeLog[j].network => i = j
    /\ (cmd = "account" /\ hasBalance \cap Range(DetectionOrder) = {}) =>
          /\ network = "none"
          /\ pc \notin {"dispatch", "await"}
          /\ (pc = "done" /\ errorMsg # NameNotFound) =>
                /\ errorMsg = NotFoundOnAnyNetwork
                /\ exitCode = 1
                /\ [i \in DOMAIN probeLog |-> probeLog[i].network] = DetectionOrder
    /\ errorMsg = NotFoundOnAnyNetwork =>
          [i \in DOMAIN probeLog |-> probeLog[i].network] = DetectionOrder

C2_Witness ==
    /\ pc = "done"
    /\ errorMsg = NotFoundOnAnyNetwork
    /\ hasBalance = {"localnet"}
    /\ Len(probeLog) = 3

(* C3: name resolution asks the naming services in the order mainnet,       *)
(* testnet, devnet, localnet; the address it returns is the one of the      *)
(* first lookup that yielded a non-empty address, every lookup before it    *)
(* having thrown or yielded nothing; the only error that leaves it is 'not  *)
(* found on any network', raised after all four networks were tried once.   *)
C3_ResolveFirstAnswer ==
    /\ Len(resolveLog) <= Len(TableOrder)
    /\ \A i \in DOMAIN resolveLog : resolveLog[i].network = TableOrder[i]
    /\ \A i \in DOMAIN resolveLog :
          i < Len(resolveLog) => resolveLog[i].address = NoAddress
    /\ (cmd = "account" /\ includesSui(identifier) /\ pc \notin {"start", "resolve"}) =>
          IF errorMsg = NameNotFound
          THEN /\ Len(resolveLog) = Len(TableOrder)
               /\ \A i \in DOMAIN resolveLog : resolveLog[i].address = NoAddress
               /\ pc = "done" /\ exitCode = 1
               /\ probeLog = <<>>
          ELSE /\ resolveLog # <<>>
               /\ ~resolveLog[Len(resolveLog)].threw
               /\ address = resolveLog[Len(resolveLog)].address
               /\ address # NoAddress
               /\ address = nameOn[resolveLog[Len(resolveLog)].network]
    /\ (pc = "resolve" /\ resolveLog # <<>>) =>
          /\ idx = Len(resolveLog) + 1
          /\ errorMsg = ""

C3_Witness ==
    /\ pc = "detect"
    /\ Len(resolveLog) = 3
    /\ resolveLog[1].threw /\ nameOn["mainnet"] = <<"0xA1">>
    /\ address = <<"0xA2">>
    /\ nameOn["localnet"] = <<"0xA1">>

(* C4: with SUI_PRIVATE_KEY absent from the environment the run sends no    *)
(* image upload request and no transaction.                                 *)
C4_NoNetworkActivityWithoutSigningKey ==
    (cmd = "launch" /\ ~env.SUI_PRIVATE_KEY) =>
        /\ "upload" \notin Range(log)
        /\ "tx" \notin Range(log)

(* C5: with WALRUS_API_KEY absent from the environment the upload request   *)
(* is never sent.                                                           *)
C5_NoUploadWithoutStorageKey ==
    (cmd = "launch" /\ ~env.WALRUS_API_KEY) => "upload" \notin Range(log)

LaunchOrder == <<"parse", "mkdir", "readFile", "upload", "mkdirSources",
                 "writeManifest", "writeSource", "build", "buildDump", "tx">>

(* C6: the effects of launchMeme happen in the order validation, directory, *)
(* upload, manifest and source, build, deploy, each once and only after the *)
(* previous one succeeded: after a failed validation nothing else was done, *)
(* after a failed upload no file was written and neither build nor deploy   *)
(* ran, after a failed build no deploy ran.                                 *)
C6_FatalAbortOrdering ==
    /\ IsPrefix(log, LaunchOrder)
    /\ errorMsg \in Range(LaunchOrder) => log[Len(log)] = errorMsg
    /\ errorMsg # "" => pc = "done" /\ exitCode = 1
    /\ errorMsg = "parse" => log = <<"parse">>
    /\ errorMsg \in {"readFile", "upload"} =>
          Range(log) \cap {"mkdirSources", "writeManifest", "writeSource",
                           "build", "buildDump", "tx"} = {}
    /\ errorMsg = "build" => Range(log) \cap {"buildDump", "tx"} = {}

C6_Witness ==
    /\ pc = "done"
    /\ errorMsg = "upload"
    /\ log = <<"parse", "mkdir", "readFile", "upload">>

(* C7: the object query, the balances query and the reverse lookup are      *)
(* created together, so none of them has a result while another is not yet  *)
(* issued, and the account output is printed only when all three have       *)
(* settled.                                                                 *)
C7_AllIssuedAndSettledBeforeRender ==
    /\ (\E q \in QueryNames : promises[q] # "unissued") =>
          \A q \in QueryNames : promises[q] # "unissued"
    /\ rendered => \A q \in QueryNames : promises[q] = "fulfilled"
    /\ rendered => exitCode = 0 /\ pc = "done"

C7_Witness ==
    /\ rendered
    /\ ~isSuiNsName
    /\ revOutcome = "name"

(* C10: no reverse-lookup request is sent for a name; for an address        *)
(* exactly one is sent, to the naming service of the detected network; its  *)
(* failure gives null, never a rejection, and the exit status is 1 exactly  *)
(* when the object query or the balances query was rejected.                *)
C10_ReverseLookupBestEffort ==
    /\ includesSui(identifier) => revRequests = <<>>
    /\ (cmd = "account" /\ ~includesSui(identifier) /\ network # "none"
          /\ pc \in {"await", "done"}) => revRequests = <<suiNsEndpoint(network)>>
    /\ network = "none" => revRequests = <<>>
    /\ promises["reverseLookup"] # "rejected"
    /\ revOutcome = "error" => reverseLookup = Null
    /\ (cmd = "account" /\ pc = "done" /\ network # "none") =>
          (exitCode = 1 <=> \/ promises["getObject"] = "rejected"
                            \/ promises["getAllBalances"] = "rejected")

C10_Witness ==
    /\ pc = "done"
    /\ exitCode = 0
    /\ rendered
    /\ revOutcome = "error"
    /\ revRequests = <<"testnet">>

(* C8: the prompt accepts a symbol exactly when it is 3 to 5 uppercase      *)
(* letters, a totalSupply exactly when it is in 1..10000 and a royaltyBps   *)
(* exactly when it is in 0..100; 'btc' and 'toolongname' are rejected and   *)
(* 'DOGE' accepted; and the record that passed the whole-record validation  *)
(* satisfies the three conditions.                                          *)
C8_SchemaAccepts ==
    /\ lastValidation.field = "symbol" =>
          /\ lastValidation.accepted <=>
                /\ Len(lastValidation.input) \in 3..5
                /\ \A i \in DOMAIN lastValidation.input :
                      lastValidation.input[i] \in UpperCase
          /\ lastValidation.input = <<"b", "t", "c">> => ~lastValidation.accepted
          /\ lastValidation.input = <<"t", "o", "o", "l", "o", "n", "g", "n", "a", "m", "e">>
                => ~lastValidation.accepted
          /\ lastValidation.input = <<"D", "O", "G", "E">> => lastValidation.accepted
    /\ lastValidation.field = "totalSupply" =>
          /\ lastValidation.accepted <=> lastValidation.input \in 1..10000
          /\ lastValidation.input \in {0, 10001} => ~lastValidation.accepted
          /\ lastValidation.input \in {1, 10000} => lastValidation.accepted
    /\ lastValidation.field = "royaltyBps" =>
          /\ lastValidation.accepted <=> lastValidation.input \in 0..100
          /\ lastValidation.input = 101 => ~lastValidation.accepted
          /\ lastValidation.input \in {0, 100} => lastValidation.accepted
    /\ "mkdir" \in Range(log) =>
          /\ Len(answers.symbol) \in 3..5
          /\ \A i \in DOMAIN answers.symbol : answers.symbol[i] \in UpperCase
          /\ answers.totalSupply \in 1..10000
          /\ answers.royaltyBps \in 0..100

C8_Witness ==
    /\ lastValidation.field = "royaltyBps"
    /\ lastValidation.input = 101
    /\ ~lastValidation.accepted
    /\ answers.symbol = <<"D", "O", "G", "E">>
    /\ answers.totalSupply = 10000

objectHasData == ~nftObject.threw /\ nftObject.data.hasData

(* the value the sources give a printed field *)
sourceValue(f) ==
    CASE f = "type" -> nftObject.data.type
      [] f = "allTimeFloorPrice" -> floorStats.allTimeFloorPrice
      [] OTHER -> IF nftObject.data.hasDisplay THEN nftObject.data[f] ELSE Undefined

(* C9: getNftDetails fails exactly when the object query gave no data; with *)
(* data it completes with exit status 0 whether or not there is display     *)
(* data and whether or not the floor-price request failed, and each of      *)
(* name, type, creator, tag and floor price that is absent is printed as    *)
(* 'Not available'.                                                         *)
C9_NftFailsOnlyWithoutData ==
    (cmd = "nft" /\ pc = "done") =>
        /\ exitCode = 1 <=> ~objectHasData
        /\ ~objectHasData => printed = [f \in DetailFields |-> ""]
        /\ objectHasData =>
              /\ errorMsg = ""
              /\ \A f \in DetailFields :
                    sourceValue(f) = Undefined => printed[f] = NotAvailable
              /\ \A f \in DetailFields :
                    sourceValue(f) \notin {Undefined, ""} => printed[f] = sourceValue(f)

C9_Witness ==
    /\ cmd = "nft" /\ pc = "done"
    /\ exitCode = 0
    /\ ~nftObject.data.hasDisplay
    /\ ~floorStats.requestOk
    /\ printed["name"] = NotAvailable
    /\ printed["allTimeFloorPrice"] = NotAvailable
    /\ printed["type"] = "0x2::pepe::Pepe"

====
